---- MODULE Spec2Model ----
(***************************************************************************)
(* The L-shaped (Benders) loop of Two_Stage_Stochastic_Program             *)
(* (src/scr/stochastic_programing.py) and the extensive-form comparison of *)
(* main (src/scr/main.py).                                                 *)
(*                                                                         *)
(* The instance family has one resource and one product, so the master LP  *)
(* has the two variables (x, theta) and every scenario dual the two        *)
(* variables (lambda, mu).  The LP oracle (gurobipy's Model.optimize) is   *)
(* modelled exactly, in rational arithmetic: a status, and on OPTIMAL any  *)
(* optimal vertex of the feasible polyhedron (the oracle's tie-breaking is *)
(* a nondeterministic choice), on UNBOUNDED any improving extreme ray.     *)
(*                                                                         *)
(* Numbers.  theta's lower bound is -1e8, far outside TLC's comfortable    *)
(* integer range once multiplied, so an integer is kept "wide" as a pair   *)
(* <<hi, lo>> standing for hi * ThetaBig + lo, and a rational as           *)
(* [n |-> wide, d |-> positive integer].  Probabilities are integer        *)
(* weights p[k] over their sum PDen (the code's p[k] is p[k] / PDen).      *)
(***************************************************************************)
EXTENDS Integers, Sequences, FiniteSets, TLC

\* ------------------------------------------------------------- bounds
\* q ranges over 0..MaxProfit, d[k] over 0..MaxDemand; the loop is explored up
\* to MaxIter iterations.
MaxProfit == 3
MaxDemand == 2
MaxIter == 8

\* The other instance domains: c (a negative cost makes the master unbounded),
\* m, s and the probability weights.
CostValues == {-1, 0, 1, 2}
UsageValues == {0, 1, 2}
SalvageValues == {0, 1}
ProbWeights == {1, 2}

\* self.scenario: the fixed enumeration order of the scenarios.
scenario == <<1, 2>>

\* ---------------------------------------------------- program constants
\* theta's lower bound is -ThetaBig (lb=-1e8).
ThetaBig == 100000000
\* epsilon = 1e-6 = 1 / EpsilonInv.
EpsilonInv == 1000000

\* ------------------------------------------------------ exact arithmetic
\* The arithmetic is written as functions: a function's arguments are
\* evaluated once, when it is applied.  For the same reason the LP operators
\* below bind an intermediate result r as "v \in {r}".
Abs[a \in Int] == IF a < 0 THEN -a ELSE a

\* Euclid's algorithm.
GCD[a \in Nat, b \in Nat] == IF b = 0 THEN a ELSE GCD[b, a % b]

\* Wide integers <<hi, lo>> = hi * ThetaBig + lo.
Wide == Int \X Int
W[a \in Int] == <<0, a>>
WAdd[a \in Wide, b \in Wide] == <<a[1] + b[1], a[2] + b[2]>>
WMul[f \in Int, a \in Wide] == <<f * a[1], f * a[2]>>
WSub[a \in Wide, b \in Wide] == <<a[1] - b[1], a[2] - b[2]>>
WNonNeg[a \in Wide] == a[1] + (a[2] \div ThetaBig) >= 0
WLeq[a \in Wide, b \in Wide] == WNonNeg[WSub[b, a]]

\* Rationals [n |-> wide, d |-> positive integer], kept in lowest terms.
Rational == [n : Wide, d : Nat \ {0}]
RDivide[n \in Wide, d \in Nat \ {0}, g \in Nat \ {0}] ==
  [n |-> <<n[1] \div g, n[2] \div g>>, d |-> d \div g]
RReduce[n \in Wide, d \in Nat \ {0}] ==
  RDivide[n, d, GCD[GCD[Abs[n[1]], Abs[n[2]]], d]]
RNorm[n \in Wide, d \in Int \ {0}] ==
  IF d < 0 THEN RReduce[WMul[-1, n], -d] ELSE RReduce[n, d]
RInt[a \in Int] == [n |-> <<0, a>>, d |-> 1]
ROver[a \in Rational, b \in Rational, l \in Nat \ {0}] ==
  RReduce[WAdd[WMul[l \div a.d, a.n], WMul[l \div b.d, b.n]], l]
RAdd[a \in Rational, b \in Rational] ==
  ROver[a, b, (a.d * b.d) \div GCD[a.d, b.d]]
\* (fn / fd) * a, fd # 0.
RScale[fn \in Int, fd \in Int \ {0}, a \in Rational] ==
  RNorm[WMul[fn, a.n], fd * a.d]
RSub[a \in Rational, b \in Rational] == RAdd[a, RScale[-1, 1, b]]
RLeq[a \in Rational, b \in Rational] == WLeq[WMul[b.d, a.n], WMul[a.d, b.n]]
RLess[a \in Rational, b \in Rational] == ~RLeq[b, a]
REq[a \in Rational, b \in Rational] == RLeq[a, b] /\ RLeq[b, a]
\* The product of two rationals of which one is an ordinary (not wide) number.
RMul[a \in Rational, b \in Rational] ==
  CASE b.n[1] = 0 -> RScale[b.n[2], b.d, a]
    [] a.n[1] = 0 -> RScale[a.n[2], a.d, b]

RECURSIVE RSum(_, _)
\* The sum of the rationals f[1] .. f[n].
RSum(f, n) == IF n = 0 THEN RInt[0] ELSE RAdd[RSum(f, n - 1), f[n]]

RECURSIVE Sum(_, _)
\* The sum of the integers f[1] .. f[n].
Sum(f, n) == IF n = 0 THEN 0 ELSE Sum(f, n - 1) + f[n]

LCM[a \in Nat \ {0}, b \in Nat \ {0}] == (a * b) \div GCD[a, b]

RECURSIVE LCMOver(_, _)
\* The least common multiple of the positive integers f[1] .. f[n].
LCMOver(f, n) == IF n = 0 THEN 1 ELSE LCM[LCMOver(f, n - 1), f[n]]

\* ------------------------------------------------------------- state
VARIABLES
  m,            \* self.m: units of the resource one unit of the product uses
  q,            \* self.q: profit of the product
  c,            \* self.c: cost of the resource
  s,            \* self.s: salvage value of the resource
  p,            \* self.p: scenario -> probability weight (over PDen)
  d,            \* self.d: scenario -> demand of the product
  extensive,    \* main's extensive model after extensive.optimize()
  MP,           \* self.MP: the master LP (objective, bounds, constraints)
  X,            \* the master's solution after MP.optimize(): var_x.X, var_theta.X
  SP,           \* self.SP: scenario -> the dual model after its optimize()
  SP_feasible,  \* L_shaped's SP_feasible
  lambda_val,   \* L_shaped's lambda_val: scenario -> recorded lambda
  mu_val,       \* L_shaped's mu_val: scenario -> recorded mu
  iter,         \* L_shaped's iter
  k,            \* position of `for k in self.scenario`
  pc            \* where L_shaped is

vars == <<m, q, c, s, p, d, extensive, MP, X, SP, SP_feasible,
          lambda_val, mu_val, iter, k, pc>>

Scenarios == 1..Len(scenario)
PDen == Sum(p, Len(scenario))

\* ------------------------------------------------------- the master LP
\* Fault: theta enters the objective with the wrong sign.
BuildMPThetaSignSlip(cost) ==
  [status |-> "LOADED",
   obj |-> [x |-> cost, theta |-> -1],
   lb |-> [x |-> RInt[0], theta |-> [n |-> <<-1, 0>>, d |-> 1]],
   constrs |-> <<>>]

\* __build_MP: minimise c * x + theta, x >= 0, theta >= -1e8, no constraints.
BuildMP(cost) ==
  [status |-> "LOADED",
   obj |-> [x |-> cost, theta |-> 1],
   lb |-> [x |-> RInt[0], theta |-> [n |-> <<-1, 0>>, d |-> 1]],
   constrs |-> <<>>]

\* The master's rows, each al * x + be * theta >= ga: the two variable bounds,
\* then the installed constraints.
MPRows(mp) ==
  <<[al |-> 1, be |-> 0, ga |-> mp.lb.x],
    [al |-> 0, be |-> 1, ga |-> mp.lb.theta]>>
  \o [i \in 1..Len(mp.constrs) |->
        [al |-> mp.constrs[i].al, be |-> mp.constrs[i].be,
         ga |-> RInt[mp.constrs[i].ga]]]

\* Whether the point pt = [x, theta] satisfies the row.
Sat(row, pt) ==
  RLeq[row.ga, RAdd[RScale[row.al, 1, pt.x], RScale[row.be, 1, pt.theta]]]

\* The intersection of two rows that are not parallel (Cramer's rule).
Cross(r1, r2) ==
  LET det == r1.al * r2.be - r2.al * r1.be
  IN [x |-> RAdd[RScale[r2.be, det, r1.ga], RScale[-r1.be, det, r2.ga]],
      theta |-> RAdd[RScale[r1.al, det, r2.ga], RScale[-r2.al, det, r1.ga]]]

\* The vertices of the master's feasible region.
MPVertices(mp) ==
  UNION {{pt \in {Cross(rows[ij[1]], rows[ij[2]]) :
                    ij \in {ij \in (DOMAIN rows) \X (DOMAIN rows) :
                      /\ ij[1] < ij[2]
                      /\ rows[ij[1]].al * rows[ij[2]].be
                           # rows[ij[2]].al * rows[ij[1]].be}} :
            \A i \in DOMAIN rows : Sat(rows[i], pt)} :
         rows \in {MPRows(mp)}}

MPObjective(mp, pt) == RAdd[RScale[mp.obj.x, 1, pt.x], RScale[mp.obj.theta, 1, pt.theta]]

\* Whether the master has a direction of its recession cone along which the
\* objective decreases.  The cone lies in dx >= 0, dtheta >= 0, so it is pointed
\* and its extreme rays run along row boundaries.
MPImprovingRay(mp) ==
  \E rows \in {MPRows(mp)} :
    \E dir \in UNION {{<<rows[i].be, -rows[i].al>>, <<-rows[i].be, rows[i].al>>} :
                        i \in DOMAIN rows} :
      /\ dir # <<0, 0>>
      /\ \A i \in DOMAIN rows : rows[i].al * dir[1] + rows[i].be * dir[2] >= 0
      /\ mp.obj.x * dir[1] + mp.obj.theta * dir[2] < 0

\* The statuses MP.optimize() can end with (DualReductions = 0: an UNBOUNDED
\* status reports an improving ray and says nothing about feasibility).
MPStatuses(mp) ==
  LET feasible == MPVertices(mp) # {}
      ray == MPImprovingRay(mp)
  IN IF feasible
     THEN (IF ray THEN {"UNBOUNDED"} ELSE {"OPTIMAL"})
     ELSE (IF ray THEN {"INFEASIBLE", "UNBOUNDED"} ELSE {"INFEASIBLE"})

\* The solutions an OPTIMAL master solve can return.
MPOptimal(mp) ==
  UNION {{pt \in vs :
            \A o \in vs : RLeq[MPObjective(mp, pt), MPObjective(mp, o)]} :
         vs \in {MPVertices(mp)}}

NoSolution == [x |-> RInt[0], theta |-> RInt[0]]

\* ------------------------------------------------- the scenario duals
\* Fault: the profit row's right-hand side with the wrong sign.
BuildDualSignSlip(kk, sol) ==
  [obj |-> [lambda |-> sol.x, mu |-> d[kk]],
   rows |-> <<[a |-> m, b |-> 1, r |-> q],
              [a |-> 1, b |-> 0, r |-> -s],
              [a |-> 0, b |-> 1, r |-> 0]>>]

\* Fault: mu without its upper bound 0.
BuildDualFreeMu(kk, sol) ==
  [obj |-> [lambda |-> sol.x, mu |-> d[kk]],
   rows |-> <<[a |-> m, b |-> 1, r |-> -q],
              [a |-> 1, b |-> 0, r |-> -s]>>]

\* __build_dual(k) at the master solution sol: maximise
\* sol.x * lambda + d[k] * mu over the rows a * lambda + b * mu <= r:
\* m * lambda + mu <= -q, lambda <= -s, and mu's upper bound 0.
BuildDual(kk, sol) ==
  [obj |-> [lambda |-> sol.x, mu |-> d[kk]],
   rows |-> <<[a |-> m, b |-> 1, r |-> -q],
              [a |-> 1, b |-> 0, r |-> -s],
              [a |-> 0, b |-> 1, r |-> 0]>>]

\* Whether the point pt = [lambda, mu] satisfies the row.
DualSat(row, pt) ==
  RLeq[RAdd[RScale[row.a, 1, pt.lambda], RScale[row.b, 1, pt.mu]], RInt[row.r]]

DualCross(r1, r2) ==
  LET det == r1.a * r2.b - r2.a * r1.b
  IN [lambda |-> RNorm[W[r1.r * r2.b - r2.r * r1.b], det],
      mu |-> RNorm[W[r1.a * r2.r - r2.a * r1.r], det]]

\* The vertices of the dual's feasible region.
DualVertices(model) ==
  UNION {{pt \in {DualCross(rows[ij[1]], rows[ij[2]]) :
                    ij \in {ij \in (DOMAIN rows) \X (DOMAIN rows) :
                      /\ ij[1] < ij[2]
                      /\ rows[ij[1]].a * rows[ij[2]].b
                           # rows[ij[2]].a * rows[ij[1]].b}} :
            \A i \in DOMAIN rows : DualSat(rows[i], pt)} :
         rows \in {model.rows}}

DualObjective(model, pt) ==
  RAdd[RMul[model.obj.lambda, pt.lambda], RScale[model.obj.mu, 1, pt.mu]]

\* The extreme rays of the dual's recession cone along which the objective
\* grows (InfUnbdInfo = 1 makes the oracle report one as UnbdRay).  The cone
\* holds lambda <= 0, mu <= 0 directions only, so it is pointed.
DualRays(model) ==
  UNION {{dir \in UNION {{<<rows[i].b, -rows[i].a>>, <<-rows[i].b, rows[i].a>>} :
                           i \in DOMAIN rows} :
            /\ dir # <<0, 0>>
            /\ \A i \in DOMAIN rows : rows[i].a * dir[1] + rows[i].b * dir[2] <= 0
            /\ RLess[RInt[0], RAdd[RScale[dir[1], 1, model.obj.lambda],
                                   RInt[model.obj.mu * dir[2]]]]} :
         rows \in {model.rows}}

\* The statuses SP[k].optimize() can end with.
DualStatuses(model) ==
  LET feasible == DualVertices(model) # {}
      ray == DualRays(model) # {}
  IN IF feasible
     THEN (IF ray THEN {"UNBOUNDED"} ELSE {"OPTIMAL"})
     ELSE (IF ray THEN {"INFEASIBLE", "UNBOUNDED"} ELSE {"INFEASIBLE"})

\* The solutions an OPTIMAL dual solve can return.
DualOptimal(model) ==
  UNION {{pt \in vs :
            \A o \in vs : RLeq[DualObjective(model, o), DualObjective(model, pt)]} :
         vs \in {DualVertices(model)}}

NoPoint == [lambda |-> RInt[0], mu |-> RInt[0]]
NoRay == <<0, 0>>

\* --------------------------------------------------------------- cuts
\* The feasibility cut of scenario kk from the ray <<lambda_ray, mu_ray>>:
\* lambda_ray * x + d[kk] * mu_ray <= 0, as a master row
\* al * x + be * theta >= ga.
FeasibilityCut(kk, ray) ==
  [kind |-> "feasibility", k |-> kk,
   al |-> -ray[1], be |-> 0, ga |-> d[kk] * ray[2]]

\* The optimality cut al * x + be * theta >= ga in lowest terms.
CutOver[al \in Int, be \in Nat \ {0}, ga \in Int, g \in Nat \ {0}] ==
  [kind |-> "optimality", k |-> 0,
   al |-> al \div g, be |-> be \div g, ga |-> ga \div g]

\* The aggregated optimality cut from the recorded duals:
\* theta >= sum_k p[k] * lambda_k * x + sum_k p[k] * d[k] * mu_k,
\* cleared of denominators, as a master row al * x + be * theta >= ga.
OptimalityCut(lam, mu) ==
  LET n == Len(scenario)
      den == LCMOver([i \in 1..(2 * n) |->
                        IF i <= n THEN lam[scenario[i]].d
                        ELSE mu[scenario[i - n]].d], 2 * n)
      slope == Sum([i \in 1..n |->
                 p[scenario[i]] * lam[scenario[i]].n[2]
                   * (den \div lam[scenario[i]].d)], n)
      const == Sum([i \in 1..n |->
                 p[scenario[i]] * d[scenario[i]] * mu[scenario[i]].n[2]
                   * (den \div mu[scenario[i]].d)], n)
  IN CutOver[-slope, PDen * den, const,
             GCD[GCD[Abs[slope], Abs[const]], PDen * den]]

\* Fault: the new cut replaces the cuts installed before it.
AddCutReplacing(mp, cut) ==
  [mp EXCEPT !.constrs = <<cut>>, !.status = "LOADED"]

\* MP.addLConstr(...); MP.update(): the constraint joins the model, whose
\* status falls back to LOADED until the next optimize().
AddCut(mp, cut) ==
  [mp EXCEPT !.constrs = Append(@, cut), !.status = "LOADED"]

\* ------------------------------------------------- the extensive form
\* build_extensive_form and extensive.optimize(): minimise
\* c * x + sum_k p[k] * (-q * y[k] - s * z[k]) over x >= 0, 0 <= y[k] <= d[k],
\* z[k] = x - m * y[k] >= 0.  A vertex has x in {0} \cup {m * d[k]} and every
\* y[k] in {0, d[k], x / m}, all integers, so the optimum over the integer
\* points up to the largest m * d[k] is the LP's optimum when it has one.  The
\* recession cone is the single ray x + 1, every z[k] + 1.
ExtensiveTop(mm, dd) ==
  LET tops == {mm * dd[kk] : kk \in DOMAIN dd} \cup {0}
  IN CHOOSE t \in tops : \A o \in tops : o <= t

ExtensivePoints(mm, dd) ==
  LET hi == ExtensiveTop(1, dd)
  IN {pt \in [x : 0..ExtensiveTop(mm, dd), y : [DOMAIN dd -> 0..hi]] :
        \A kk \in DOMAIN dd : pt.y[kk] <= dd[kk] /\ pt.x - mm * pt.y[kk] >= 0}

\* PDen times the extensive objective at the point.
ExtensiveObjective(mm, qq, cc, ss, pp, dd, pt) ==
  Sum(pp, Len(pp)) * cc * pt.x
  + Sum([kk \in DOMAIN dd |->
           pp[kk] * (-qq * pt.y[kk] - ss * (pt.x - mm * pt.y[kk]))], Len(pp))

ExtensiveOptimize(mm, qq, cc, ss, pp, dd) ==
  LET pts == ExtensivePoints(mm, dd)
      ray == Sum(pp, Len(pp)) * cc - Sum([kk \in DOMAIN pp |-> pp[kk] * ss], Len(pp)) < 0
      best == CHOOSE pt \in pts : \A o \in pts :
                ExtensiveObjective(mm, qq, cc, ss, pp, dd, pt)
                  <= ExtensiveObjective(mm, qq, cc, ss, pp, dd, o)
  IN IF pts = {}
     THEN [status |-> "INFEASIBLE", ObjVal |-> RInt[0]]
     ELSE IF ray
     THEN [status |-> "UNBOUNDED", ObjVal |-> RInt[0]]
     ELSE [status |-> "OPTIMAL",
           ObjVal |-> RNorm[W[ExtensiveObjective(mm, qq, cc, ss, pp, dd, best)],
                            Sum(pp, Len(pp))]]

\* ------------------------------------------------------------- Init
\* Two_Stage_Stochastic_Program.__init__ with the demands drawn from Demands,
\* then main's extensive.optimize().
InitWith(Demands) ==
  /\ m \in UsageValues
  /\ q \in 0..MaxProfit
  /\ c \in CostValues
  /\ s \in SalvageValues
  /\ p \in [Scenarios -> ProbWeights]
  /\ d \in [Scenarios -> Demands]
  /\ extensive = ExtensiveOptimize(m, q, c, s, p, d)
  /\ MP = BuildMP(c)
  /\ X = NoSolution
  /\ SP = <<>>
  /\ SP_feasible = TRUE
  /\ lambda_val = <<>>
  /\ mu_val = <<>>
  /\ iter = 0
  /\ k = 0
  /\ pc = "solve_MP"

\* Problem data as the data model has it: demands d[k] >= 0.
Init == InitWith(0..MaxDemand)

\* Any demand entry, a negative one included (the code checks no data).
InitAny == InitWith(-1..MaxDemand)

\* ---------------------------------------------------------- L_shaped
\* Fault: the loop of a version with a ceiling of 2 iterations.
WhileBelowCeiling == iter < 2

\* `while True:`: the loop has no bound of its own; the model follows it for
\* MaxIter iterations.
WhileTrue == iter <= MaxIter

\* L_shaped, lines 225-238: solve the master; raise unless it is optimal.
SolveMP ==
  /\ pc = "solve_MP"
  /\ WhileTrue
  /\ \E st \in MPStatuses(MP) :
       IF st = "OPTIMAL"
       THEN /\ X' \in MPOptimal(MP)
            /\ MP' = [MP EXCEPT !.status = st]
            /\ SP_feasible' = TRUE
            /\ lambda_val' = <<>>
            /\ mu_val' = <<>>
            /\ k' = 1
            /\ pc' = "solve_SP"
       ELSE /\ MP' = [MP EXCEPT !.status = st]
            /\ pc' = "ERROR"
            /\ UNCHANGED <<X, SP_feasible, lambda_val, mu_val, k>>
  /\ UNCHANGED <<m, q, c, s, p, d, extensive, SP, iter>>

\* The dual model of scenario kk after its optimize().
Solved(model, st, pt, ray) ==
  [status |-> st, obj |-> model.obj, X |-> pt,
   ObjVal |-> IF st = "OPTIMAL" THEN DualObjective(model, pt) ELSE RInt[0],
   UnbdRay |-> ray]

\* Lines 246-259: the dual is optimal; record lambda and mu and go on with
\* the next scenario, or with the optimality check after the last one.
SPOptimal(kk, model, pt) ==
  /\ SP' = (kk :> Solved(model, "OPTIMAL", pt, NoRay)) @@ SP
  /\ lambda_val' = (kk :> pt.lambda) @@ lambda_val
  /\ mu_val' = (kk :> pt.mu) @@ mu_val
  /\ IF k = Len(scenario)
     THEN pc' = "check" /\ k' = k
     ELSE pc' = "solve_SP" /\ k' = k + 1
  /\ UNCHANGED <<MP, SP_feasible, iter>>

\* Fault: lambda_ray and mu_ray read from each other's variable.
RecordRaySwapped(ray) == [lambda |-> ray[2], mu |-> ray[1]]

\* Lines 270-282: lambda_ray and mu_ray read from the variables' UnbdRay.
RecordRay(ray) == [lambda |-> ray[1], mu |-> ray[2]]

\* Fault: the unbounded branch without its `break`: the cut is installed and
\* the scenario loop goes on; the iteration is counted after the last scenario.
SPUnboundedNoBreak(kk, model, ray) ==
  /\ SP' = (kk :> Solved(model, "UNBOUNDED", NoPoint, ray)) @@ SP
  /\ SP_feasible' = FALSE
  /\ MP' = AddCut(MP, FeasibilityCut(kk, <<RecordRay(ray).lambda, RecordRay(ray).mu>>))
  /\ IF k = Len(scenario)
     THEN pc' = "solve_MP" /\ k' = k /\ iter' = iter + 1
     ELSE pc' = "solve_SP" /\ k' = k + 1 /\ iter' = iter
  /\ UNCHANGED <<lambda_val, mu_val>>

\* Lines 260-289 and 334-337: the dual is unbounded; install the feasibility
\* cut, leave the scenario loop, skip the optimality check, count the
\* iteration.
SPUnbounded(kk, model, ray) ==
  /\ SP' = (kk :> Solved(model, "UNBOUNDED", NoPoint, ray)) @@ SP
  /\ SP_feasible' = FALSE
  /\ MP' = AddCut(MP, FeasibilityCut(kk, <<RecordRay(ray).lambda, RecordRay(ray).mu>>))
  /\ iter' = iter + 1
  /\ pc' = "solve_MP"
  /\ UNCHANGED <<lambda_val, mu_val, k>>

\* Fault: the fatal status is logged and the scenario loop goes on.
SPNoRaise(kk, model, st) ==
  /\ SP' = (kk :> Solved(model, st, NoPoint, NoRay)) @@ SP
  /\ IF k = Len(scenario)
     THEN pc' = "check" /\ k' = k
     ELSE pc' = "solve_SP" /\ k' = k + 1
  /\ UNCHANGED <<MP, SP_feasible, lambda_val, mu_val, iter>>

\* Lines 290-295: any other status raises ValueError.
SPRaise(kk, model, st) ==
  /\ SP' = (kk :> Solved(model, st, NoPoint, NoRay)) @@ SP
  /\ pc' = "ERROR"
  /\ UNCHANGED <<MP, SP_feasible, lambda_val, mu_val, iter, k>>

\* L_shaped, lines 241-295: one pass of `for k in self.scenario`: build the
\* dual of scenario[k] at the master solution, solve it, branch on its status.
SolveSP ==
  /\ pc = "solve_SP"
  /\ LET kk == scenario[k]
         model == BuildDual(kk, X)
     IN \E st \in DualStatuses(model) :
          CASE st = "OPTIMAL" ->
                 \E pt \in DualOptimal(model) : SPOptimal(kk, model, pt)
            [] st = "UNBOUNDED" ->
                 \E ray \in DualRays(model) : SPUnbounded(kk, model, ray)
            [] OTHER -> SPRaise(kk, model, st)
  /\ UNCHANGED <<m, q, c, s, p, d, extensive, X>>

\* Fault: the scenario values summed without their probabilities.
ValueUnweighted(sp) ==
  RSum([i \in 1..Len(scenario) |-> sp[scenario[i]].ObjVal], Len(scenario))

\* value = np.sum([p[k] * SP[k].ObjVal for k in scenario])
Value(sp) ==
  RScale[1, PDen,
         RSum([i \in 1..Len(scenario) |->
                 RScale[p[scenario[i]], 1, sp[scenario[i]].ObjVal]],
              Len(scenario))]

\* Fault: the operands swapped, theta <= value + epsilon.
WithinEpsilonSwapped(value, theta) ==
  RLeq[RSub[theta, value], [n |-> W[1], d |-> EpsilonInv]]

\* value <= theta + epsilon, epsilon = 1 / EpsilonInv: with value - theta the
\* rational n / d, n * EpsilonInv <= d, which for an integer n is
\* n <= d \div EpsilonInv.
AtMostEpsilon[diff \in Rational] == WLeq[diff.n, W[diff.d \div EpsilonInv]]
WithinEpsilon(value, theta) == AtMostEpsilon[RSub[value, theta]]

\* L_shaped, lines 297-337: all scenarios were optimal; stop when
\* value <= theta + epsilon, else install the optimality cut and go on.
CheckOptimality ==
  /\ pc = "check"
  /\ SP_feasible
  /\ IF WithinEpsilon(Value(SP), X.theta)
     THEN /\ pc' = "CONVERGED"
          /\ UNCHANGED <<MP, iter>>
     ELSE /\ MP' = AddCut(MP, OptimalityCut(lambda_val, mu_val))
          /\ iter' = iter + 1
          /\ pc' = "solve_MP"
  /\ UNCHANGED <<m, q, c, s, p, d, extensive, X, SP, SP_feasible,
                 lambda_val, mu_val, k>>

\* Statuses the oracle can end with whatever the LP is (a numerical failure,
\* an interrupt): neither OPTIMAL, UNBOUNDED nor INFEASIBLE.
AbnormalStatuses == {"NUMERIC"}

\* Lines 229-234 when MP.optimize() ends abnormally.
SolveMPAbnormal ==
  /\ pc = "solve_MP"
  /\ WhileTrue
  /\ \E st \in AbnormalStatuses : MP' = [MP EXCEPT !.status = st]
  /\ pc' = "ERROR"
  /\ UNCHANGED <<m, q, c, s, p, d, extensive, X, SP, SP_feasible,
                 lambda_val, mu_val, iter, k>>

\* Lines 243-244 and 290-295 when SP[k].optimize() ends abnormally.
SolveSPAbnormal ==
  /\ pc = "solve_SP"
  /\ \E st \in AbnormalStatuses :
       SPRaise(scenario[k], BuildDual(scenario[k], X), st)
  /\ UNCHANGED <<m, q, c, s, p, d, extensive, X>>

Next == SolveMP \/ SolveSP \/ CheckOptimality

NextAny == Next \/ SolveMPAbnormal \/ SolveSPAbnormal

\* The data model's instances, an oracle that ends every solve normally.
Spec == Init /\ [][Next]_vars

\* L_shaped runs to its end: it is one sequential call.
FairSpec == Spec /\ WF_vars(Next)

\* Any data, an oracle that may end a solve abnormally.
SpecAny == InitAny /\ [][NextAny]_vars

\* ------------------------------------------------- the true recourse cost
\* The scenario block of the extensive form at a fixed x (build_extensive_form:
\* the objective's scenario term and the scenario's constraints): the least
\* -q * y - s * z over 0 <= y <= d[kk], z = x - m * y >= 0.  Its vertices are
\* y in {0, d[kk], x / m}, integers when m divides x.
RecourseCost(kk, x) ==
  LET vals == {-q * y - s * (x - m * y) : y \in {yy \in 0..d[kk] : x - m * yy >= 0}}
  IN CHOOSE v \in vals : \A o \in vals : v <= o

\* PDen times the expected recourse cost at x.
ExpectedRecourse(x) ==
  Sum([i \in 1..Len(scenario) |-> p[scenario[i]] * RecourseCost(scenario[i], x)],
      Len(scenario))

\* ------------------------------------------------------------ claims
NumCuts == Len(MP.constrs)
LastCut(mp) == mp.constrs[Len(mp.constrs)]
CutsOfKind(kind) == {i \in 1..NumCuts : MP.constrs[i].kind = kind}
\* The step installs one cut of the kind and keeps the cuts it found.
Installs(kind) ==
  /\ Len(MP'.constrs) = NumCuts + 1
  /\ LastCut(MP').kind = kind
  /\ \A i \in 1..NumCuts : MP'.constrs[i] = MP.constrs[i]
RowOf(cut) == [al |-> cut.al, be |-> cut.be, ga |-> RInt[cut.ga]]
Epsilon == [n |-> W[1], d |-> EpsilonInv]

Termination == (extensive.status = "OPTIMAL") ~> (pc = "CONVERGED")

TerminatedAfterCuts ==
  pc = "CONVERGED" /\ extensive.status = "OPTIMAL" /\ NumCuts >= 3

\* C3: scenarios are solved in the order of self.scenario; the first unbounded
\* dual installs exactly one feasibility cut, no later scenario is solved, no
\* optimality check follows and the next step is a master solve; no iteration
\* installs more than one feasibility cut.
FeasibilityShortCircuit ==
  /\ [](Cardinality(CutsOfKind("feasibility")) <= iter)
  /\ [][/\ (pc = "solve_MP" /\ pc' = "solve_SP" => k' = 1)
        /\ (pc = "solve_SP" /\ pc' = "solve_SP" => k' = k + 1 /\ iter' = iter)
        /\ (pc = "solve_SP" /\ SP'[scenario[k]].status = "UNBOUNDED" =>
              /\ Installs("feasibility")
              /\ LastCut(MP').k = scenario[k]
              /\ \A j \in (k + 1)..Len(scenario) :
                   IF scenario[j] \in DOMAIN SP
                   THEN SP'[scenario[j]] = SP[scenario[j]]
                   ELSE scenario[j] \notin DOMAIN SP'
              /\ pc' = "solve_MP"
              /\ iter' = iter + 1)]_vars

ShortCircuited ==
  /\ pc = "solve_MP"
  /\ k = 1
  /\ NumCuts >= 1
  /\ LastCut(MP).kind = "feasibility"
  /\ scenario[2] \notin DOMAIN SP

\* C4: with every dual optimal, value = sum_k p[k] * ObjVal_k comes from the
\* duals built at this iteration's master solution; value <= theta + 1e-6
\* stops in CONVERGED with no cut installed, anything else installs exactly one
\* optimality cut and returns to the master solve; CONVERGED is reached in no
\* other way.
ConvergenceTest ==
  /\ [](pc = "check" =>
          \A i \in 1..Len(scenario) :
            /\ SP[scenario[i]].status = "OPTIMAL"
            /\ SP[scenario[i]].obj = BuildDual(scenario[i], X).obj
            /\ SP[scenario[i]].X \in DualOptimal(BuildDual(scenario[i], X))
            /\ lambda_val[scenario[i]] = SP[scenario[i]].X.lambda
            /\ mu_val[scenario[i]] = SP[scenario[i]].X.mu)
  /\ [][/\ (pc = "check" =>
              IF RLeq[RSub[Value(SP), X.theta], Epsilon]
              THEN pc' = "CONVERGED" /\ MP' = MP /\ iter' = iter
              ELSE pc' = "solve_MP" /\ Installs("optimality") /\ iter' = iter + 1)
        /\ (pc' = "CONVERGED" => pc = "check")]_vars

ConvergedAfterOptimalityCut ==
  pc = "CONVERGED" /\ NumCuts >= 2 /\ CutsOfKind("optimality") = 1..NumCuts

\* C5: a master status other than optimal, or a dual status other than
\* optimal or unbounded, aborts the run at once: no further scenario is
\* solved, no cut is installed in that iteration, the cut set stays as it was
\* and CONVERGED is never reported.
FatalStatusAborts ==
  /\ [](MP.status \notin {"LOADED", "OPTIMAL"} => pc = "ERROR")
  /\ [](\A kk \in DOMAIN SP :
          SP[kk].status \notin {"OPTIMAL", "UNBOUNDED"} => pc = "ERROR")
  /\ [](pc = "ERROR" => NumCuts = iter)
  /\ [][/\ (pc' = "ERROR" /\ pc # "ERROR" =>
              /\ MP'.constrs = MP.constrs
              /\ iter' = iter
              /\ pc = "solve_SP" =>
                   \A kk \in DOMAIN SP' :
                     kk # scenario[k] => kk \in DOMAIN SP /\ SP'[kk] = SP[kk])
        /\ (pc = "ERROR" => pc' = "ERROR")]_vars

AbortedInScenario ==
  /\ pc = "ERROR"
  /\ iter >= 1
  /\ MP.status = "OPTIMAL"
  /\ SP[scenario[k]].status \notin {"OPTIMAL", "UNBOUNDED"}

\* C6 as stated, with a configured ceiling of 2 iterations: once the
\* iteration count exceeds the ceiling the run has stopped, in its Divergence
\* outcome.
StopsAtCeiling == iter > 2 => pc = "DIVERGED"

\* C6 amended: the loop has no iteration ceiling and no Divergence outcome:
\* it goes on, counting its iterations, until CONVERGED or the fatal status
\* error, the only two ways it stops.
RunsUntilConvergedOrError ==
  /\ [](pc \in {"solve_MP", "solve_SP", "check", "CONVERGED", "ERROR"})
  /\ [][iter' = iter \/ (iter' = iter + 1 /\ pc' = "solve_MP")]_vars
  /\ <>(pc \in {"CONVERGED", "ERROR"})

PastTheCeiling == iter > 2 /\ pc = "solve_SP"

\* C7: the cut set starts empty and only grows: every iteration that neither
\* converges nor aborts appends exactly one cut, no installed cut is removed
\* or altered, and the master's objective and bounds stay those of
\* construction; after n such iterations the master holds n cuts.
CutsAppendOnly ==
  /\ [](NumCuts = iter)
  /\ [](/\ MP.obj = [x |-> c, theta |-> 1]
        /\ MP.lb = [x |-> RInt[0], theta |-> [n |-> <<-1, 0>>, d |-> 1]])
  /\ [][/\ Len(MP'.constrs) \in {NumCuts, NumCuts + 1}
        /\ \A i \in 1..NumCuts : MP'.constrs[i] = MP.constrs[i]
        /\ (pc \in {"solve_SP", "check"} /\ pc' = "solve_MP" =>
              Len(MP'.constrs) = NumCuts + 1)]_vars

ThreeCuts == NumCuts >= 3 /\ pc = "solve_SP"

\* The cut's right-hand side is at most the true expected recourse cost at
\* every sampled x (the multiples of m up to past the largest m * d[k], which
\* hold every breakpoint of the recourse cost), and its slope is at most -s,
\* the recourse cost's slope past its last breakpoint: the affine cut lies
\* below the convex piecewise-linear recourse cost at every x >= 0.
BelowRecourse(cut) ==
  /\ \A j \in 0..(MaxDemand + 2) :
       LET x == j * (IF m = 0 THEN 1 ELSE m)
       IN (cut.ga - cut.al * x) * PDen <= cut.be * ExpectedRecourse(x)
  /\ cut.al >= s * cut.be

\* C8: every optimality cut is theta >= sum_k p[k] * lambda_k * x
\* + sum_k p[k] * d[k] * mu_k over this iteration's optimal duals; its
\* right-hand side never exceeds the true expected recourse cost; the master
\* solution that triggered it violates it.
OptimalityCutsValid ==
  /\ [](\A i \in CutsOfKind("optimality") : BelowRecourse(MP.constrs[i]))
  /\ [][Len(MP'.constrs) > NumCuts /\ LastCut(MP').kind = "optimality" =>
          LET cut == LastCut(MP')
              n == Len(scenario)
          IN /\ cut.be > 0
             /\ REq[RNorm[W[-cut.al], cut.be],
                    RScale[1, PDen, RSum([i \in 1..n |->
                      RScale[p[scenario[i]], 1, SP[scenario[i]].X.lambda]], n)]]
             /\ REq[RNorm[W[cut.ga], cut.be],
                    RScale[1, PDen, RSum([i \in 1..n |->
                      RScale[p[scenario[i]] * d[scenario[i]], 1,
                             SP[scenario[i]].X.mu]], n)]]
             /\ ~Sat(RowOf(cut), X)]_vars

SlopedOptimalityCut ==
  /\ NumCuts >= 2
  /\ LastCut(MP).kind = "optimality"
  /\ LastCut(MP).al > 0
  /\ LastCut(MP).ga < 0

DualAlwaysOptimal ==
  /\ RLeq[RInt[0], X.x]
  /\ \A kk \in DOMAIN SP :
       /\ SP[kk].status = "OPTIMAL"
       /\ RLeq[SP[kk].ObjVal, RInt[0]]
       /\ RLeq[SP[kk].X.lambda, RInt[-s]]
       /\ RLeq[SP[kk].X.mu, RInt[0]]
  /\ SP_feasible
  /\ CutsOfKind("optimality") = 1..NumCuts
  /\ (pc = "ERROR" => MP.status \notin {"LOADED", "OPTIMAL"})

NegativeDualValue ==
  /\ pc = "check"
  /\ iter >= 1
  /\ \A kk \in DOMAIN SP : RLess[SP[kk].ObjVal, RInt[0]]
====
